---- MODULE Spec2Model ----
(***************************************************************************)
(* A model of the JSDoc comment parser (src/jsdoc/parser.py).              *)
(*                                                                         *)
(* Text is modelled character by character: a Python str is a sequence of  *)
(* one-character strings, so that the regular expressions of JSDocParser   *)
(* are matched the way the re module matches them (leftmost, greedy, with  *)
(* \s also matching the line break).  An Optional value is <<>> (None) or  *)
(* <<v>>.                                                                  *)
(***************************************************************************)
EXTENDS Integers, Sequences, FiniteSets, TLC

VARIABLES
    jsdoc_string,     \* the argument of parse: <<>> (absent) or <<text>>
    include_code,     \* the argument include_code
    written,          \* the tags as they were written into jsdoc_string
    pc,               \* position of the call inside parse
    comment_matches,  \* matches of COMMENT_BLOCK_PATTERN
    content,          \* raw interior text of the first block (or the input)
    code,             \* Optional text following the last block
    fields,           \* description, params, returns, properties, examples, throws
    typedefs,         \* typedefs collected from every block
    result,           \* Optional JSDocComment returned
    error             \* Optional name of the ValueError raised

vars == <<jsdoc_string, include_code, written, pc, comment_matches, content,
          code, fields, typedefs, result, error>>

-----------------------------------------------------------------------------
(* Characters and the str methods the parser uses.                         *)

Space == {" ", "\n", "\t"}

WordChars ==
    {"a","b","c","d","e","f","g","h","i","j","k","l","m","n","o","p","q","r",
     "s","t","u","v","w","x","y","z","A","B","C","D","E","F","G","H","I","J",
     "K","L","M","N","O","P","Q","R","S","T","U","V","W","X","Y","Z","0","1",
     "2","3","4","5","6","7","8","9","_"}

None == <<>>
Some(v) == <<v>>

\* first position >= i whose character is not in S (Len(s)+1 when none)
RECURSIVE SpanIn(_, _, _)
SpanIn(s, i, S) ==
    IF i <= Len(s) /\ s[i] \in S THEN SpanIn(s, i + 1, S) ELSE i

\* first position >= i whose character is in S (Len(s)+1 when none)
RECURSIVE SpanNotIn(_, _, _)
SpanNotIn(s, i, S) ==
    IF i <= Len(s) /\ s[i] \notin S THEN SpanNotIn(s, i + 1, S) ELSE i

\* last position <= j whose character is not in S (0 when none)
RECURSIVE RSpanIn(_, _, _)
RSpanIn(s, j, S) ==
    IF j >= 1 /\ s[j] \in S THEN RSpanIn(s, j - 1, S) ELSE j

\* the literal lit stands at position i of s
LitAt(s, i, lit) ==
    /\ i + Len(lit) - 1 <= Len(s)
    /\ \A k \in 1..Len(lit) : s[i + k - 1] = lit[k]

CharAt(s, i, c) == i <= Len(s) /\ s[i] = c

\* s[i:j] with 1-based i and exclusive j
Slice(s, i, j) == SubSeq(s, i, j - 1)

strip(s) ==
    LET a == SpanIn(s, 1, Space)
        b == RSpanIn(s, Len(s), Space)
    IN  IF a > Len(s) THEN <<>> ELSE SubSeq(s, a, b)

rstrip(s) == SubSeq(s, 1, RSpanIn(s, Len(s), Space))

startswith(s, lit) == LitAt(s, 1, lit)

endswith(s, lit) == Len(lit) <= Len(s) /\ LitAt(s, Len(s) - Len(lit) + 1, lit)

\* str.strip(chars): both ends cleared of the characters of S
strip_chars(s, S) ==
    LET a == SpanIn(s, 1, S)
        b == RSpanIn(s, Len(s), S)
    IN  IF a > Len(s) THEN <<>> ELSE SubSeq(s, a, b)

RECURSIVE split_from(_, _, _)
split_from(s, i, c) ==
    LET j == SpanNotIn(s, i, {c})
    IN  IF j > Len(s) THEN <<Slice(s, i, j)>>
        ELSE <<Slice(s, i, j)>> \o split_from(s, j + 1, c)

\* str.split(c) for a one-character separator
split(s, c) == split_from(s, 1, c)

RECURSIVE join(_, _)
join(lines, c) ==
    IF lines = <<>> THEN <<>>
    ELSE IF Len(lines) = 1 THEN lines[1]
    ELSE lines[1] \o <<c>> \o join(Tail(lines), c)

Contains(s, c) == \E k \in 1..Len(s) : s[k] = c

-----------------------------------------------------------------------------
(* The patterns of JSDocParser.  A match is <<>> (no match at this start)  *)
(* or <<m>>, m a record holding the groups and the position after the      *)
(* match.                                                                  *)

K_param    == <<"@","p","a","r","a","m">>
K_return   == <<"@","r","e","t","u","r","n">>
K_typedef  == <<"@","t","y","p","e","d","e","f">>
K_property == <<"@","p","r","o","p","e","r","t","y">>
K_example  == <<"@","e","x","a","m","p","l","e">>
K_throws   == <<"@","t","h","r","o","w","s">>
K_open     == <<"/","*","*">>
K_close    == <<"*","/">>

\* a slip: the block pattern compiled without re.DOTALL
COMMENT_BLOCK_PATTERN_one_line(s, i) ==
    IF ~LitAt(s, i, K_open) THEN <<>>
    ELSE LET stop   == SpanNotIn(s, i + 3, {"\n"})
             Closes == {j \in (i + 3)..(stop - 1) : LitAt(s, j, K_close)}
         IN  IF Closes = {} THEN <<>>
             ELSE LET j == CHOOSE x \in Closes : \A y \in Closes : x <= y
                  IN  <<[start |-> i, end |-> j + 2, group1 |-> Slice(s, i + 3, j)]>>

\* /\*\*(.*?)\*/ with DOTALL, tried at start i
COMMENT_BLOCK_PATTERN(s, i) ==
    IF ~LitAt(s, i, K_open) THEN <<>>
    ELSE LET Closes == {j \in (i + 3)..Len(s) : LitAt(s, j, K_close)}
         IN  IF Closes = {} THEN <<>>
             ELSE LET j == CHOOSE x \in Closes : \A y \in Closes : x <= y
                  IN  <<[start |-> i, end |-> j + 2, group1 |-> Slice(s, i + 3, j)]>>

\* \s+\{([^}]+)\} tried at i
TypeGroup(s, i) ==
    LET j == SpanIn(s, i, Space)
        k == SpanNotIn(s, j + 1, {"}"})
    IN  IF j > i /\ CharAt(s, j, "{") /\ k > j + 1 /\ k <= Len(s)
        THEN <<[type_str |-> Slice(s, j + 1, k), end |-> k + 1]>>
        ELSE <<>>

\* \s*-?\s*(.*) tried at i: it always matches; \s* runs over line breaks
\* and (.*) stops at the line break
DescTail(s, i) ==
    LET a == SpanIn(s, i, Space)
        b == IF CharAt(s, a, "-") THEN a + 1 ELSE a
        c == SpanIn(s, b, Space)
        d == SpanNotIn(s, c, {"\n"})
    IN  [description |-> Slice(s, c, d), end |-> d]

NameStop == {"[", "]", "-"} \cup Space

\* an optional character c at i: the position after it
SkipChar(s, i, c) == IF CharAt(s, i, c) THEN i + 1 ELSE i

\* (?:=[^[\]]*)? at i: the position after it
SkipDefault(s, i) ==
    IF CharAt(s, i, "=") THEN SpanNotIn(s, i + 1, {"[", "]"}) ELSE i

\* \s+(\[?([^[\]\s-]+(?:=[^[\]]*)?)\]?) tried at i
NameGroup(s, i) ==
    LET p  == SpanIn(s, i, Space)
        q  == SkipChar(s, p, "[")
        r  == SpanNotIn(s, q, NameStop)
        r2 == SkipDefault(s, r)
        r3 == SkipChar(s, r2, "]")
    IN  IF p > i /\ r > q
        THEN <<[bracketed_name |-> Slice(s, p, r3), name |-> Slice(s, q, r2),
                end |-> r3]>>
        ELSE <<>>

\* the groups of a match of PARAM_PATTERN or PROPERTY_PATTERN: the type t,
\* the name n and the description d
NamedMatch(t, n, d) ==
    <<[type_str |-> t.type_str, bracketed_name |-> n.bracketed_name,
       name |-> n.name, description |-> d.description, end |-> d.end]>>

NamedAfterName(s, t, n) ==
    IF n = <<>> THEN <<>> ELSE NamedMatch(t, n[1], DescTail(s, n[1].end))

NamedAfterType(s, t) ==
    IF t = <<>> THEN <<>> ELSE NamedAfterName(s, t[1], NameGroup(s, t[1].end))

\* the shape shared by PARAM_PATTERN and PROPERTY_PATTERN
NamedTag(s, i, keyword) ==
    IF ~LitAt(s, i, keyword) THEN <<>>
    ELSE NamedAfterType(s, TypeGroup(s, i + Len(keyword)))

PARAM_PATTERN(s, i) == NamedTag(s, i, K_param)

PROPERTY_PATTERN(s, i) == NamedTag(s, i, K_property)

TypedMatch(t, d) ==
    <<[type_str |-> t.type_str, description |-> d.description, end |-> d.end]>>

TypedAfterType(s, t) ==
    IF t = <<>> THEN <<>> ELSE TypedMatch(t[1], DescTail(s, t[1].end))

\* the shape shared by RETURN_PATTERN and THROWS_PATTERN; i stands after
\* the keyword
TypedTag(s, i) == TypedAfterType(s, TypeGroup(s, i))

\* @returns?\s+\{([^}]+)\}\s*-?\s*(.*)
RETURN_PATTERN(s, i) ==
    IF ~LitAt(s, i, K_return) THEN <<>>
    ELSE TypedTag(s, SkipChar(s, i + Len(K_return), "s"))

THROWS_PATTERN(s, i) ==
    IF ~LitAt(s, i, K_throws) THEN <<>> ELSE TypedTag(s, i + Len(K_throws))

\* \s+([^\s]+)(?:\s*-?\s*([^@]*))? tried at i, behind the type t
TypedefAfterType(s, t, i) ==
    LET p == SpanIn(s, i, Space)
        q == SpanNotIn(s, p, Space)
        c == SpanIn(s, SkipChar(s, SpanIn(s, q, Space), "-"), Space)
        d == SpanNotIn(s, c, {"@"})
    IN  IF p > i /\ q > p
        THEN <<[type_str |-> t.type_str, name |-> Slice(s, p, q),
                description |-> Slice(s, c, d), end |-> d]>>
        ELSE <<>>

TypedefTag(s, t) ==
    IF t = <<>> THEN <<>> ELSE TypedefAfterType(s, t[1], t[1].end)

\* @typedef\s+\{([^}]+)\}\s+([^\s]+)(?:\s*-?\s*([^@]*))?
TYPEDEF_PATTERN(s, i) ==
    IF ~LitAt(s, i, K_typedef) THEN <<>>
    ELSE TypedefTag(s, TypeGroup(s, i + Len(K_typedef)))

\* the pattern named pat tried at start i
Match(pat, s, i) ==
    CASE pat = "param"    -> PARAM_PATTERN(s, i)
      [] pat = "property" -> PROPERTY_PATTERN(s, i)
      [] pat = "return"   -> RETURN_PATTERN(s, i)
      [] pat = "throws"   -> THROWS_PATTERN(s, i)
      [] pat = "typedef"  -> TYPEDEF_PATTERN(s, i)
      [] pat = "block"    -> COMMENT_BLOCK_PATTERN(s, i)

\* pattern.findall / pattern.finditer: the non-overlapping matches, found
\* from the left, each search starting where the previous match ended
RECURSIVE findall(_, _, _)
RECURSIVE findall_next(_, _, _, _)
findall(pat, s, i) ==
    IF i > Len(s) THEN <<>> ELSE findall_next(pat, s, i, Match(pat, s, i))

\* the search goes on behind the match m tried at i
findall_next(pat, s, i, m) ==
    IF m = <<>> THEN findall(pat, s, i + 1)
    ELSE <<m[1]>> \o findall(pat, s, m[1].end)

-----------------------------------------------------------------------------
(* JSDocParser                                                             *)

\* re.sub(r'^\s*\*\s?', '', line)
strip_decoration(line) ==
    LET j == SpanIn(line, 1, Space)
    IN  IF CharAt(line, j, "*")
        THEN Slice(line, IF j + 1 <= Len(line) /\ line[j + 1] \in Space
                         THEN j + 2 ELSE j + 1, Len(line) + 1)
        ELSE line

RECURSIVE clean_lines(_, _)
clean_lines(lines, cleaned_lines) ==
    IF lines = <<>> THEN cleaned_lines
    ELSE LET line == strip_decoration(strip(lines[1]))
         IN  clean_lines(Tail(lines),
                         IF line # <<>> \/ cleaned_lines # <<>>
                         THEN Append(cleaned_lines, line) ELSE cleaned_lines)

RECURSIVE pop_blank_tail(_)
pop_blank_tail(lines) ==
    IF lines # <<>> /\ strip(lines[Len(lines)]) = <<>>
    THEN pop_blank_tail(SubSeq(lines, 1, Len(lines) - 1)) ELSE lines

clean_comment_content(text) ==
    join(pop_blank_tail(clean_lines(split(text, "\n"), <<>>)), "\n")

RECURSIVE strip_each(_)
strip_each(ts) ==
    IF ts = <<>> THEN <<>> ELSE <<strip(ts[1])>> \o strip_each(Tail(ts))

\* a slip: the empty pieces of the type string kept
parse_types_unfiltered(type_string) == strip_each(split(type_string, "|"))

parse_types(type_string) ==
    SelectSeq(strip_each(split(type_string, "|")), LAMBDA t : t # <<>>)

\* the record built from one match of PARAM_PATTERN or PROPERTY_PATTERN
named_record(m) ==
    LET optional   == startswith(m.bracketed_name, <<"[">>)
                      /\ endswith(m.bracketed_name, <<"]">>)
        param_name == IF m.name # <<>> THEN m.name
                      ELSE strip_chars(m.bracketed_name, {"[", "]"})
    IN  [types       |-> parse_types(m.type_str),
         name        |-> IF Contains(param_name, "=")
                         THEN split(param_name, "=")[1] ELSE param_name,
         description |-> strip(m.description),
         optional    |-> optional]

RECURSIVE named_records(_)
named_records(matches) ==
    IF matches = <<>> THEN <<>>
    ELSE <<named_record(matches[1])>> \o named_records(Tail(matches))

parse_parameters(text) == named_records(findall("param", text, 1))

parse_properties(text) == named_records(findall("property", text, 1))

typed_record(m) ==
    [types |-> parse_types(m.type_str), description |-> strip(m.description)]

RECURSIVE typed_records(_)
typed_records(matches) ==
    IF matches = <<>> THEN <<>>
    ELSE <<typed_record(matches[1])>> \o typed_records(Tail(matches))

parse_returns(text) == typed_records(findall("return", text, 1))

parse_throws(text) == typed_records(findall("throws", text, 1))

\* a slip: no property handed to a typedef
typedef_properties_none(n, all_properties) == <<>>

\* a slip: every typedef of a block handed all its properties
typedef_properties_shared(n, all_properties) == all_properties

\* the properties of a typedef of a block with n typedefs
typedef_properties(n, all_properties) == IF n = 1 THEN all_properties ELSE <<>>

RECURSIVE typedef_records(_, _, _)
typedef_records(matches, n, all_properties) ==
    IF matches = <<>> THEN <<>>
    ELSE LET m == matches[1]
         IN  <<[types       |-> parse_types(m.type_str),
                name        |-> m.name,
                description |-> IF m.description # <<>>
                                THEN Some(strip(m.description)) ELSE None,
                properties  |-> typedef_properties(n, all_properties)]>>
             \o typedef_records(Tail(matches), n, all_properties)

typedefs_of(matches, text) ==
    IF matches = <<>> THEN <<>>
    ELSE typedef_records(matches, Len(matches), parse_properties(text))

parse_typedefs(text) == typedefs_of(findall("typedef", text, 1), text)

\* re.finditer(r'@example\s*\n?', content): the position after each match
RECURSIVE example_matches(_, _)
example_matches(s, i) ==
    IF i > Len(s) THEN <<>>
    ELSE IF LitAt(s, i, K_example)
         THEN LET a == SpanIn(s, i + Len(K_example), Space)
                  e == IF CharAt(s, a, "\n") THEN a + 1 ELSE a
              IN  <<e>> \o example_matches(s, e)
         ELSE example_matches(s, i + 1)

\* a search that finds no tag at all
next_tag_none(s, i) == Len(s) + 1

\* a search that stops at the tags the parser has patterns for only
RECURSIVE next_tag_known(_, _)
next_tag_known(s, i) ==
    IF i > Len(s) THEN i
    ELSE IF \E k \in {K_param, K_return, K_typedef, K_property, K_example, K_throws} :
                LitAt(s, i, k) THEN i
    ELSE next_tag_known(s, i + 1)

\* re.search(r'@\w+', content[start_pos:]): where the next tag starts
\* (Len(s)+1 when there is none)
RECURSIVE next_tag(_, _)
next_tag(s, i) ==
    IF i > Len(s) THEN i
    ELSE IF s[i] = "@" /\ i + 1 <= Len(s) /\ s[i + 1] \in WordChars THEN i
    ELSE next_tag(s, i + 1)

RECURSIVE example_clean_lines(_)
example_clean_lines(lines) ==
    IF lines = <<>> THEN <<>>
    ELSE <<strip_decoration(rstrip(lines[1]))>> \o example_clean_lines(Tail(lines))

RECURSIVE pop_empty_head(_)
pop_empty_head(lines) ==
    IF lines # <<>> /\ lines[1] = <<>> THEN pop_empty_head(Tail(lines)) ELSE lines

RECURSIVE pop_empty_tail(_)
pop_empty_tail(lines) ==
    IF lines # <<>> /\ lines[Len(lines)] = <<>>
    THEN pop_empty_tail(SubSeq(lines, 1, Len(lines) - 1)) ELSE lines

\* the Example record of the cleaned lines of one span, if any is left
example_of(cleaned_lines) ==
    IF cleaned_lines # <<>>
    THEN <<[code |-> join(cleaned_lines, "\n"), description |-> None]>>
    ELSE <<>>

\* the Example record of one span, if it is not blank
example_record(example_content) ==
    IF example_content = <<>> THEN <<>>
    ELSE example_of(pop_empty_tail(pop_empty_head(
             example_clean_lines(split(example_content, "\n")))))

\* the Example records of the spans that start at the positions starts
RECURSIVE example_records(_, _)
example_records(s, starts) ==
    IF starts = <<>> THEN <<>>
    ELSE example_record(strip(Slice(s, starts[1], next_tag(s, starts[1]))))
         \o example_records(s, Tail(starts))

parse_examples(text) == example_records(text, example_matches(text, 1))

\* the lines before the first line that starts with '@'
RECURSIVE desc_lines_of(_)
desc_lines_of(lines) ==
    IF lines = <<>> \/ startswith(strip(lines[1]), <<"@">>) THEN <<>>
    ELSE <<lines[1]>> \o desc_lines_of(Tail(lines))

\* a slip: the cut kept as summary also when it is the whole of full_desc
summary_of_cut(full_desc, summary) == summary

\* the first sentence of full_desc, or its first line
summary_of(full_desc, summary) ==
    IF summary = full_desc THEN strip(split(full_desc, "\n")[1]) ELSE summary

first_sentence(full_desc, first) ==
    IF ~endswith(first, <<".">>) /\ Contains(full_desc, ".")
    THEN Append(first, ".") ELSE first

description_of(full_desc) ==
    IF full_desc = <<>> THEN None
    ELSE Some([full    |-> full_desc,
               summary |-> summary_of(full_desc,
                               first_sentence(full_desc, split(full_desc, ".")[1]))])

description_from(desc_lines) ==
    IF desc_lines = <<>> \/ \A k \in 1..Len(desc_lines) : strip(desc_lines[k]) = <<>>
    THEN None
    ELSE description_of(strip(join(desc_lines, "\n")))

extract_description_parts(text) == description_from(desc_lines_of(split(text, "\n")))

-----------------------------------------------------------------------------
(* parse                                                                   *)

EmptyError == "JSDoc string cannot be empty"

FormatError == "Invalid JSDoc comment format: must be wrapped in /** */"

\* a slip: the emptiness check without strip()
is_empty_unstripped(s) == s = None \/ s[1] = <<>>

\* not jsdoc_string or not jsdoc_string.strip()
is_empty(s) == s = None \/ s[1] = <<>> \/ strip(s[1]) = <<>>

\* a slip: the fallback check on the untrimmed text
is_bare_comment_untrimmed(text) == startswith(text, <<"*">>)

\* the input without /** */ wrapper is taken when it starts with '*'
is_bare_comment(text) == startswith(strip(text), <<"*">>)

\* a slip: the text behind the first block taken as code
trailing_code_first(text, matches, include) ==
    LET remaining_text == strip(Slice(text, matches[1].end, Len(text) + 1))
    IN  IF include /\ remaining_text # <<>> THEN Some(remaining_text) ELSE None

\* the text after the last comment block, None when blank or not asked for
trailing_code(text, matches, include) ==
    LET remaining_text == strip(Slice(text, matches[Len(matches)].end, Len(text) + 1))
    IN  IF include /\ remaining_text # <<>> THEN Some(remaining_text) ELSE None

has_function_doc(block_content) ==
    \/ parse_parameters(block_content) # <<>>
    \/ parse_returns(block_content) # <<>>
    \/ parse_examples(block_content) # <<>>
    \/ parse_throws(block_content) # <<>>

\* a slip: the first block taken as the main block whatever it holds
main_block_first(matches, k) == k

\* index of the first block with function documentation, 0 when none has
RECURSIVE main_block(_, _)
main_block(matches, k) ==
    IF k > Len(matches) THEN 0
    ELSE IF has_function_doc(clean_comment_content(matches[k].group1)) THEN k
    ELSE main_block(matches, k + 1)

\* description, params, returns, properties, examples and throws of text
all_fields(text) ==
    [description |-> extract_description_parts(text),
     params      |-> parse_parameters(text),
     returns     |-> parse_returns(text),
     properties  |-> parse_properties(text),
     examples    |-> parse_examples(text),
     throws      |-> parse_throws(text)]

\* a slip: the properties taken from the first block whichever is the main
main_fields_first_properties(k, matches, cleaned_content) ==
    [all_fields(clean_comment_content(matches[IF k = 0 THEN 1 ELSE k].group1))
        EXCEPT !.properties = parse_properties(cleaned_content)]

\* the fields when block k is the main block (k = 0: no block has function
\* documentation, the first block gives description and properties)
main_fields(k, matches, cleaned_content) ==
    IF k = 0
    THEN [description |-> extract_description_parts(cleaned_content),
          params      |-> <<>>,
          returns     |-> <<>>,
          properties  |-> parse_properties(cleaned_content),
          examples    |-> <<>>,
          throws      |-> <<>>]
    ELSE all_fields(clean_comment_content(matches[k].group1))

extract_fields(matches, cleaned_content) ==
    IF matches # <<>>
    THEN main_fields(main_block(matches, 1), matches, cleaned_content)
    ELSE all_fields(cleaned_content)

RECURSIVE block_typedefs(_)
block_typedefs(matches) ==
    IF matches = <<>> THEN <<>>
    ELSE parse_typedefs(clean_comment_content(matches[1].group1))
         \o block_typedefs(Tail(matches))

\* a slip: the typedefs of the first block only
collect_typedefs_first(matches, cleaned_content) == parse_typedefs(cleaned_content)

collect_typedefs(matches, cleaned_content) ==
    IF matches # <<>> THEN block_typedefs(matches)
    ELSE parse_typedefs(cleaned_content)

NoFields ==
    [description |-> None, params |-> <<>>, returns |-> <<>>,
     properties |-> <<>>, examples |-> <<>>, throws |-> <<>>]

\* a slip: the trimmed input kept as raw_comment
JSDocComment_trimmed(f, tds, c, raw) ==
    [description |-> f.description, params |-> f.params, returns |-> f.returns,
     typedefs |-> tds, properties |-> f.properties, examples |-> f.examples,
     throws |-> f.throws, code |-> c, raw_comment |-> strip(raw)]

JSDocComment(f, tds, c, raw) ==
    [description |-> f.description, params |-> f.params, returns |-> f.returns,
     typedefs |-> tds, properties |-> f.properties, examples |-> f.examples,
     throws |-> f.throws, code |-> c, raw_comment |-> raw]

\* lines 371-372
CheckEmpty ==
    /\ pc = "start"
    /\ IF is_empty(jsdoc_string)
       THEN error' = Some(EmptyError) /\ pc' = "raised"
       ELSE error' = error /\ pc' = "find"
    /\ UNCHANGED <<jsdoc_string, include_code, written, comment_matches, content,
                   code, fields, typedefs, result>>

\* lines 378-396, matches being the blocks found in text
TakeContent(text, matches) ==
    /\ comment_matches' = matches
    /\ IF matches = <<>>
       THEN IF is_bare_comment(text)
            THEN content' = text /\ error' = error /\ pc' = "extract"
            ELSE content' = content /\ error' = Some(FormatError) /\ pc' = "raised"
       ELSE content' = matches[1].group1 /\ error' = error /\ pc' = "extract"
    /\ code' = IF matches = <<>> THEN None
               ELSE trailing_code(text, matches, include_code)

\* lines 375-396
FindBlocks ==
    /\ pc = "find"
    /\ TakeContent(jsdoc_string[1], findall("block", jsdoc_string[1], 1))
    /\ UNCHANGED <<jsdoc_string, include_code, written, fields, typedefs, result>>

\* lines 398-442
ExtractFields ==
    /\ pc = "extract"
    /\ fields' = extract_fields(comment_matches, clean_comment_content(content))
    /\ pc' = "typedefs"
    /\ UNCHANGED <<jsdoc_string, include_code, written, comment_matches, content,
                   code, typedefs, result, error>>

\* lines 444-453
CollectTypedefs ==
    /\ pc = "typedefs"
    /\ typedefs' = collect_typedefs(comment_matches, clean_comment_content(content))
    /\ pc' = "return"
    /\ UNCHANGED <<jsdoc_string, include_code, written, comment_matches, content,
                   code, fields, result, error>>

\* lines 455-465
Return ==
    /\ pc = "return"
    /\ result' = Some(JSDocComment(fields, typedefs, code, jsdoc_string[1]))
    /\ pc' = "done"
    /\ UNCHANGED <<jsdoc_string, include_code, written, comment_matches, content,
                   code, fields, typedefs, error>>

Next == CheckEmpty \/ FindBlocks \/ ExtractFields \/ CollectTypedefs \/ Return

-----------------------------------------------------------------------------
(* The inputs: comments written the way the tests of the parser write      *)
(* them.  A line of a comment is kept as it was written (its tag, the      *)
(* pieces of its type token, its name, brackets, default value, dash and   *)
(* description) next to the text it renders to.                            *)

MaxLines == 2

Piece(t) == [text |-> t, padded |-> FALSE]

Padded(t) == [text |-> t, padded |-> TRUE]

Text(d) ==
    [tag |-> "text", type |-> <<>>, name |-> <<>>, bracketed |-> FALSE,
     default |-> None, dash |-> FALSE, desc |-> d]

Named(tag, type, bracketed, name, default, dash, desc) ==
    [tag |-> tag, type |-> type, name |-> name, bracketed |-> bracketed,
     default |-> default, dash |-> dash, desc |-> desc]

Typed(tag, type, dash, desc) ==
    [tag |-> tag, type |-> type, name |-> <<>>, bracketed |-> FALSE,
     default |-> None, dash |-> dash, desc |-> desc]

Typedef(type, name, desc) ==
    [tag |-> "typedef", type |-> type, name |-> name, bracketed |-> FALSE,
     default |-> None, dash |-> FALSE, desc |-> desc]

\* an @example tag with the lines of body under it
Example(body) ==
    [tag |-> "example", type |-> <<>>, name |-> <<>>, bracketed |-> FALSE,
     default |-> None, dash |-> FALSE, desc |-> body]

ExampleTag ==
    [tag |-> "example", type |-> <<>>, name |-> <<>>, bracketed |-> FALSE,
     default |-> None, dash |-> FALSE, desc |-> <<>>]

Keyword(tag) ==
    CASE tag = "param"    -> K_param
      [] tag = "property" -> K_property
      [] tag = "return"   -> K_return
      [] tag = "returns"  -> K_return \o <<"s">>
      [] tag = "throws"   -> K_throws
      [] tag = "typedef"  -> K_typedef
      [] tag = "example"  -> K_example

RECURSIVE RenderPieces(_)
RenderPieces(type) ==
    IF type = <<>> THEN <<>>
    ELSE <<IF type[1].padded THEN <<" ">> \o type[1].text \o <<" ">> ELSE type[1].text>>
         \o RenderPieces(Tail(type))

RenderType(type) == <<"{">> \o join(RenderPieces(type), "|") \o <<"}">>

RenderName(l) ==
    (IF l.bracketed THEN <<"[">> ELSE <<>>)
    \o l.name
    \o (IF l.default # None THEN <<"=">> \o l.default[1] ELSE <<>>)
    \o (IF l.bracketed THEN <<"]">> ELSE <<>>)

RenderTail(l) ==
    IF l.dash THEN <<" ","-"," ">> \o l.desc
    ELSE IF l.desc # <<>> THEN <<" ">> \o l.desc ELSE <<>>

\* the body of an example, each of its lines on a decorated line of its own
RECURSIVE RenderBodyLines(_)
RenderBodyLines(lines) ==
    IF lines = <<>> THEN <<>>
    ELSE <<"\n"," ","*"," ">> \o lines[1] \o RenderBodyLines(Tail(lines))

RenderBody(body) == IF body = <<>> THEN <<>> ELSE RenderBodyLines(split(body, "\n"))

RenderLine(l) ==
    CASE l.tag = "text" -> l.desc
      [] l.tag \in {"param", "property"} ->
            Keyword(l.tag) \o <<" ">> \o RenderType(l.type) \o <<" ">> \o RenderName(l)
            \o RenderTail(l)
      [] l.tag \in {"return", "returns", "throws"} ->
            Keyword(l.tag) \o <<" ">> \o RenderType(l.type) \o RenderTail(l)
      [] l.tag = "typedef" ->
            Keyword(l.tag) \o <<" ">> \o RenderType(l.type) \o <<" ">> \o l.name
            \o RenderTail(l)
      [] l.tag = "example" -> Keyword(l.tag) \o RenderBody(l.desc)

\* the lines inside /** */, each behind ' * '
RECURSIVE RenderBlockLines(_)
RenderBlockLines(lines) ==
    IF lines = <<>> THEN <<>>
    ELSE <<" ","*"," ">> \o RenderLine(lines[1]) \o <<"\n">> \o RenderBlockLines(Tail(lines))

RenderBlock(lines) == <<"/","*","*","\n">> \o RenderBlockLines(lines) \o <<" ","*","/">>

\* the lines without the /** */ wrapper, each behind '* '
RECURSIVE RenderBareLines(_)
RenderBareLines(lines) ==
    IF lines = <<>> THEN <<>>
    ELSE <<"*"," ">> \o RenderLine(lines[1])
         \o (IF Len(lines) > 1 THEN <<"\n">> ELSE <<>>) \o RenderBareLines(Tail(lines))

\* comment blocks one after the other, between standing between two of them
RECURSIVE RenderBlocks(_, _)
RenderBlocks(blocks, between) ==
    IF blocks = <<>> THEN <<>>
    ELSE RenderBlock(blocks[1])
         \o (IF Len(blocks) > 1 THEN between ELSE <<>>)
         \o RenderBlocks(Tail(blocks), between)

RenderInput(w) ==
    CASE w.form = "absent" -> None
      [] w.form = "blocks" -> Some(RenderBlocks(w.blocks, w.between) \o w.tail)
      [] w.form = "raw"    -> Some(w.tail)
      [] w.form = "block"  -> Some(RenderBlock(w.lines) \o w.tail)
      [] w.form = "bare"   -> Some(RenderBareLines(w.lines))

SeqsUpTo(S, n) == UNION {[1..k -> S] : k \in 0..n}

Blocks(Lines, Tails) ==
    {[form |-> "block", lines |-> ls, tail |-> t] :
        ls \in SeqsUpTo(Lines, MaxLines), t \in Tails}

Bares(Lines) ==
    {[form |-> "bare", lines |-> ls, tail |-> <<>>] : ls \in SeqsUpTo(Lines, MaxLines)}

Raws(Texts) ==
    {[form |-> "raw", lines |-> <<>>, tail |-> t] : t \in Texts}
    \cup {[form |-> "absent", lines |-> <<>>, tail |-> <<>>]}

TyA == <<Piece(<<"a">>)>>
TyB == <<Piece(<<"b">>)>>
TyE == <<Piece(<<"E">>)>>

GeneralLines ==
    {Text(<<"S","u","m",".">>), Text(<<"@","s","e","e"," ","x">>), ExampleTag,
     Named("param", TyA, FALSE, <<"x">>, None, TRUE, <<"d">>),
     Named("property", TyA, FALSE, <<"p">>, None, TRUE, <<"d">>),
     Typed("returns", TyA, FALSE, <<"d">>),
     Typed("throws", TyE, FALSE, <<"d">>),
     Typedef(TyA, <<"T">>, <<>>)}

GeneralTails ==
    {<<>>, <<"\n","f","(",")">>, <<"\n","/","*","*"," ","@","t","y","p","e","d","e","f"," ","{","b","}"," ","U"," ","*","/","\n">>, <<" ","g"," ","/","*","*","\n"," ","*"," ","@","t","h","r","o","w","s"," ","{","E","}"," ","e","\n"," ","*","/","\n","f","(",")","\n">>}

RawTexts ==
    {<<>>, <<" ">>, <<"\n"," ","\t">>, <<"n","o","t"," ","a"," ","c","o","m","m","e","n","t">>, <<"/","*","*","/">>, <<"/","*"," ","x"," ","*","/">>, <<" "," ","*"," ","x">>,
     <<"*">>, <<"x"," ","/","*","*"," ","y">>, <<"@","p","a","r","a","m"," ","{","a","}"," ","x">>, <<"*","/"," ","/","*","*">>, <<"\n","*","\n">>}

GeneralInputs ==
    Blocks(GeneralLines, GeneralTails) \cup Bares(GeneralLines) \cup Raws(RawTexts)

InitWith(Inputs, Flags) ==
    /\ written \in Inputs
    /\ jsdoc_string = RenderInput(written)
    /\ include_code \in Flags
    /\ pc = "start"
    /\ comment_matches = <<>>
    /\ content = <<>>
    /\ code = None
    /\ fields = NoFields
    /\ typedefs = <<>>
    /\ result = None
    /\ error = None

Init == InitWith(GeneralInputs, BOOLEAN)

Spec == Init /\ [][Next]_vars


\* @param and @property lines: bare and bracketed names, default values
\* (plain, with a hyphen, with a blank), with and without description
ParamLines ==
    {Named("param", TyA, b, <<"x">>, d, TRUE, <<"d">>) :
        b \in BOOLEAN, d \in {None, Some(<<"1">>), Some(<<"a","-","b">>), Some(<<"a"," ","b">>)}}
    \cup {Named("param", TyA, b, <<"x">>, None, FALSE, <<>>) : b \in BOOLEAN}
    \cup {Named("param", TyA, FALSE, <<"x">>, None, FALSE, <<"d">>),
          Named("param", TyB, FALSE, <<"y">>, None, TRUE, <<"e">>)}
    \cup {Named("property", TyA, b, <<"p">>, d, TRUE, <<"d">>) :
        b \in BOOLEAN, d \in {None, Some(<<"a","-","b">>)}}
    \cup {Named("property", TyB, FALSE, <<"q">>, Some(<<"1">>), FALSE, <<>>)}

ParamInputs == Blocks(ParamLines, {<<>>}) \cup Bares(ParamLines)

InitParam == InitWith(ParamInputs, {TRUE})

SpecParam == InitParam /\ [][Next]_vars

\* type tokens: one type, unions, padded pieces, empty pieces, separators only
TyAB    == <<Piece(<<"a">>), Piece(<<"b">>)>>
TyABC   == <<Piece(<<"s","t","r","i","n","g">>), Piece(<<"n","u","m","b","e","r">>), Piece(<<"n","u","l","l">>)>>
TyPad   == <<Padded(<<"a">>), Padded(<<"b">>)>>
TyGap   == <<Piece(<<"b">>), Piece(<<>>), Padded(<<>>), Piece(<<"a">>)>>
TyNone  == <<Piece(<<>>), Piece(<<>>)>>

TypedLines ==
    {Named("param", t, FALSE, <<"x">>, None, TRUE, <<"d">>) :
        t \in {TyA, TyAB, TyABC, TyPad, TyGap, TyNone}}
    \cup {Named("property", t, FALSE, <<"p">>, None, TRUE, <<"d">>) : t \in {TyAB, TyGap}}
    \cup {Typed("returns", t, FALSE, <<"d">>) : t \in {TyA, TyPad, TyGap}}
    \cup {Typed("return", TyAB, TRUE, <<"e">>), Typed("return", TyA, FALSE, <<>>),
          Typed("returns", TyB, FALSE, <<>>)}
    \cup {Typed("throws", t, FALSE, <<"d">>) : t \in {TyE, TyPad, TyGap}}
    \cup {Typed("throws", TyE, FALSE, <<>>), Typed("throws", TyAB, TRUE, <<"e">>)}
    \cup {Typedef(t, <<"T">>, <<>>) : t \in {TyAB, TyPad, TyGap}}
    \cup {Text(<<"S","u","m",".">>)}

TypedInputs == Blocks(TypedLines, {<<>>})

InitTyped == InitWith(TypedInputs, {TRUE})

SpecTyped == InitTyped /\ [][Next]_vars


-----------------------------------------------------------------------------
(* What the input is, read off the text itself.                            *)

Absent == jsdoc_string = None

InputText == jsdoc_string[1]

\* absent, empty or made only of whitespace
BlankInput == Absent \/ \A k \in 1..Len(InputText) : InputText[k] \in Space

\* a /** with a */ somewhere behind it
HasBlock(text) ==
    \E i \in 1..Len(text) : \E j \in (i + 3)..Len(text) :
        LitAt(text, i, K_open) /\ LitAt(text, j, K_close)

\* the first character that is not whitespace is '*'
StartsWithStar(text) ==
    \E k \in 1..Len(text) : text[k] = "*" /\ \A j \in 1..(k - 1) : text[j] \in Space

KnownKeywords == {K_param, K_return, K_typedef, K_property, K_example, K_throws}

\* none of the six tag keywords stands anywhere in the text
NoKnownTag(text) ==
    \A i \in 1..Len(text) : \A kw \in KnownKeywords : ~LitAt(text, i, kw)

-----------------------------------------------------------------------------
(* Error handling                                                          *)

\* C1: an input that is absent, empty or made only of whitespace raises the
\* empty-input error: the call never gets past the emptiness check, so it
\* raises no format error and returns no result.
C1_EmptyInputRaises ==
    BlankInput =>
        /\ pc \in {"start", "raised"}
        /\ result = None
        /\ (pc = "raised" => error = Some(EmptyError))
        /\ (pc = "start" => error = None)

C1_Witness ==
    /\ ~Absent /\ Len(InputText) > 1 /\ BlankInput
    /\ pc = "raised" /\ error = Some(EmptyError)

\* C2: a non-blank input without a delimited block raises the format error
\* and returns nothing when its trimmed text does not begin with '*', and is
\* taken whole as one block and parsed when it does.
C2_FormatErrorOrFallback ==
    (~BlankInput /\ ~HasBlock(InputText)) =>
        IF StartsWithStar(InputText)
        THEN /\ error = None
             /\ pc # "raised"
             /\ (pc \in {"extract", "typedefs", "return", "done"} =>
                    comment_matches = <<>> /\ content = InputText)
             /\ (pc = "done" => result # None)
        ELSE /\ result = None
             /\ pc \in {"start", "find", "raised"}
             /\ (pc = "raised" => error = Some(FormatError))
             /\ (pc # "raised" => error = None)

C2_Witness ==
    /\ ~BlankInput /\ ~HasBlock(InputText) /\ StartsWithStar(InputText)
    /\ InputText[1] # "*"
    /\ pc = "done" /\ result # None

\* C3: a non-blank input that holds a delimited block, or whose trimmed text
\* begins with '*', never raises; when it holds none of the recognized tags
\* the six tag sequences of the result are empty.
C3_NeverFails ==
    (~BlankInput /\ (HasBlock(InputText) \/ StartsWithStar(InputText))) =>
        /\ error = None
        /\ pc # "raised"
        /\ (pc = "done" =>
              /\ result # None
              /\ (NoKnownTag(InputText) =>
                    /\ result[1].params = <<>>
                    /\ result[1].returns = <<>>
                    /\ result[1].typedefs = <<>>
                    /\ result[1].properties = <<>>
                    /\ result[1].examples = <<>>
                    /\ result[1].throws = <<>>))

C3_Witness ==
    /\ ~BlankInput /\ HasBlock(InputText) /\ NoKnownTag(InputText)
    /\ Len(written.lines) = 2
    /\ pc = "done" /\ result # None /\ result[1].description # None

\* C4: the raw_comment of a result is the input exactly as it was given.
C4_RawCommentVerbatim ==
    pc = "done" => result # None /\ result[1].raw_comment = RenderInput(written)[1]

C4_Witness ==
    /\ pc = "done" /\ Len(comment_matches) = 2 /\ code # None
    /\ result[1].raw_comment # strip(result[1].raw_comment)
    /\ result[1].raw_comment = RenderInput(written)[1]


-----------------------------------------------------------------------------
(* The tags as written, and the records they should give.                  *)

\* the types a type token names: its pieces without the empty ones
RECURSIVE WrittenTypes(_)
WrittenTypes(type) ==
    IF type = <<>> THEN <<>>
    ELSE (IF type[1].text # <<>> THEN <<type[1].text>> ELSE <<>>)
         \o WrittenTypes(Tail(type))

\* the written lines whose tag is one of tags, in source order
LinesOf(tags) == SelectSeq(written.lines, LAMBDA l : l.tag \in tags)

AllLines(tags) == \A k \in 1..Len(written.lines) : written.lines[k].tag \in tags

NamedTags == {"param", "property"}

ReturnTags == {"return", "returns"}

Done == pc = "done" /\ result # None

Parsed == result[1]

\* the records of a name-bearing tag agree with the lines they were written as
NamedAsWritten(records, lines) ==
    /\ Len(records) = Len(lines)
    /\ \A k \in 1..Len(lines) :
          /\ k <= Len(records)
          /\ records[k].name = lines[k].name
          /\ records[k].types = WrittenTypes(lines[k].type)
          /\ records[k].optional = lines[k].bracketed

-----------------------------------------------------------------------------
(* @param and @property                                                    *)

\* C5: a single block of N @param tags, each '@param {types} name' with or
\* without '- description', gives N params in source order whose name, types
\* and optional are those of the tags as written.
C5_ParamsAsWritten ==
    (/\ Done /\ written.form = "block" /\ AllLines({"param"})
     /\ \A k \in 1..Len(written.lines) : written.lines[k].default = None)
    => NamedAsWritten(Parsed.params, written.lines)

\* C6: optional is true exactly for the tags whose name token stands in
\* square brackets, whatever the default value inside the brackets.
C6_OptionalIffBracketed ==
    (/\ Done /\ AllLines(NamedTags)
     /\ \A k \in 1..Len(written.lines) : written.lines[k].desc # <<>>)
    => LET params     == LinesOf({"param"})
           properties == LinesOf({"property"})
       IN  /\ Len(Parsed.params) = Len(params)
           /\ Len(Parsed.properties) = Len(properties)
           /\ \A k \in 1..Len(params) :
                 k <= Len(Parsed.params)
                 /\ Parsed.params[k].optional = params[k].bracketed
           /\ \A k \in 1..Len(properties) :
                 k <= Len(Parsed.properties)
                 /\ Parsed.properties[k].optional = properties[k].bracketed

\* the name of every record is the written name: the text before the first
\* '=' of the name token, free of '=', '[' and ']'
NamesTruncated(records, lines) ==
    /\ Len(records) = Len(lines)
    /\ \A k \in 1..Len(lines) :
          /\ k <= Len(records)
          /\ records[k].name = lines[k].name
          /\ \A c \in {"=", "[", "]"} : ~Contains(records[k].name, c)

\* C7: a name token with a default value gives the text before its first '='
\* as name, with no '=', '[' or ']' left in it, for bracketed and bare tokens
\* alike, and optional stays what the brackets say.
C7_NameBeforeEquals ==
    (/\ Done /\ AllLines(NamedTags)
     /\ \A k \in 1..Len(written.lines) :
           written.lines[k].desc # <<>> /\ written.lines[k].default # None)
    => /\ NamesTruncated(Parsed.params, LinesOf({"param"}))
       /\ NamesTruncated(Parsed.properties, LinesOf({"property"}))
       /\ \A k \in 1..Len(LinesOf({"param"})) :
             k <= Len(Parsed.params)
             /\ Parsed.params[k].optional = LinesOf({"param"})[k].bracketed
       /\ \A k \in 1..Len(LinesOf({"property"})) :
             k <= Len(Parsed.properties)
             /\ Parsed.properties[k].optional = LinesOf({"property"})[k].bracketed

\* the part of C7 about the name alone
C7_NamePart ==
    (/\ Done /\ AllLines(NamedTags)
     /\ \A k \in 1..Len(written.lines) : written.lines[k].desc # <<>>)
    => /\ NamesTruncated(Parsed.params, LinesOf({"param"}))
       /\ NamesTruncated(Parsed.properties, LinesOf({"property"}))

-----------------------------------------------------------------------------
(* Type tokens, @returns and @throws                                       *)

RECURSIVE IsSubseq(_, _)
IsSubseq(a, b) ==
    IF a = <<>> THEN TRUE
    ELSE IF b = <<>> THEN FALSE
    ELSE IF a[1] = b[1] THEN IsSubseq(Tail(a), Tail(b))
    ELSE IsSubseq(a, Tail(b))

TypesOf(records) == [k \in 1..Len(records) |-> records[k].types]

TypesWritten(tags) ==
    LET lines == LinesOf(tags) IN [k \in 1..Len(lines) |-> WrittenTypes(lines[k].type)]

\* no tag line but the last is written without description text
AllDescribed ==
    \A k \in 1..(Len(written.lines) - 1) :
        written.lines[k].tag \in {"text", "typedef"} \/ written.lines[k].desc # <<>>

\* the types of the records are those of the written tags, in their order
TypesSplit(records, tags) ==
    /\ IsSubseq(TypesOf(records), TypesWritten(tags))
    /\ (AllDescribed => TypesOf(records) = TypesWritten(tags))

\* C8: the types of a record are the pieces of its tag's type token between
\* the '|' separators, each trimmed, the empty ones left out, in source
\* order; param, returns, property, typedef and throws split alike.
C8_TypesSplit ==
    Done =>
        /\ TypesSplit(Parsed.params, {"param"})
        /\ TypesSplit(Parsed.returns, ReturnTags)
        /\ TypesSplit(Parsed.properties, {"property"})
        /\ TypesSplit(Parsed.typedefs, {"typedef"})
        /\ TypesSplit(Parsed.throws, {"throws"})

C8_Witness ==
    /\ Done /\ Len(written.lines) = 2
    /\ written.lines[1].tag = "param" /\ written.lines[1].type = TyABC
    /\ written.lines[2].tag = "throws" /\ written.lines[2].type = TyGap
    /\ Parsed.params[1].types = <<<<"s","t","r","i","n","g">>, <<"n","u","m","b","e","r">>, <<"n","u","l","l">>>>
    /\ Parsed.throws[1].types = <<<<"b">>, <<"a">>>>

\* the written comment with the spelling of the return tag of line k changed
OtherSpelling(k) ==
    [written EXCEPT !.lines[k].tag = IF @ = "return" THEN "returns" ELSE "return"]

\* the returns of the result parse gives for text
ReturnsOf(text) ==
    LET matches == findall("block", text, 1)
    IN  extract_fields(matches,
            clean_comment_content(IF matches = <<>> THEN text
                                  ELSE matches[1].group1)).returns

\* C9: changing '@return' into '@returns' or back in any return tag leaves
\* the returns of the result as they are.
C9_ReturnSynonyms ==
    Done =>
        \A k \in 1..Len(written.lines) :
            written.lines[k].tag \in ReturnTags =>
                ReturnsOf(RenderInput(OtherSpelling(k))[1]) = Parsed.returns

\* C10: a block of K @throws tags, each with a brace-delimited type, gives K
\* throws records in source order, each with the types and the description
\* of its own tag, with or without description text.
C10_ThrowsAsWritten ==
    (Done /\ AllLines({"throws"}))
    => /\ Len(Parsed.throws) = Len(written.lines)
       /\ \A k \in 1..Len(written.lines) :
             /\ k <= Len(Parsed.throws)
             /\ Parsed.throws[k].types = WrittenTypes(written.lines[k].type)
             /\ Parsed.throws[k].description = written.lines[k].desc


-----------------------------------------------------------------------------
(* What remains of C5, C9 and C10 when no tag line but the last is written *)
(* without description text.                                               *)

C5_DescribedPart ==
    (/\ Done /\ written.form = "block" /\ AllLines({"param"}) /\ AllDescribed
     /\ \A k \in 1..Len(written.lines) : written.lines[k].default = None)
    => NamedAsWritten(Parsed.params, written.lines)

C9_DescribedPart ==
    (Done /\ AllDescribed) =>
        \A k \in 1..Len(written.lines) :
            written.lines[k].tag \in ReturnTags =>
                ReturnsOf(RenderInput(OtherSpelling(k))[1]) = Parsed.returns

C10_DescribedPart ==
    (Done /\ AllLines({"throws"}) /\ AllDescribed)
    => /\ Len(Parsed.throws) = Len(written.lines)
       /\ \A k \in 1..Len(written.lines) :
             /\ k <= Len(Parsed.throws)
             /\ Parsed.throws[k].types = WrittenTypes(written.lines[k].type)
             /\ Parsed.throws[k].description = written.lines[k].desc


-----------------------------------------------------------------------------
(* @example                                                                *)

ExampleLines ==
    {Example(<<"f","(","1",")">>), Example(<<"g","(","2",")","\n"," "," ","h","(","3",")">>), Example(<<"a","@","b"," ","c">>), Example(<<"*">>),
     Example(<<"*"," ","x">>), Example(<<" "," ","i","\n"," "," "," "," ","j">>), ExampleTag, Text(<<"k","(",")">>), Text(<<"@","s","e","e"," ","x">>),
     Typed("throws", TyE, FALSE, <<"d">>)}

ExampleInputs == Blocks(ExampleLines, {<<>>})

InitExample == InitWith(ExampleInputs, {TRUE})

SpecExample == InitExample /\ [][Next]_vars

\* a tag marker '@word' stands at i
MarkerAt(s, i) == s[i] = "@" /\ i < Len(s) /\ s[i + 1] \in WordChars

HasMarker(s) == \E i \in 1..Len(s) : MarkerAt(s, i)

\* s up to its first tag marker
BeforeMarker(s) ==
    IF HasMarker(s)
    THEN SubSeq(s, 1, (CHOOSE i \in 1..Len(s) :
                          MarkerAt(s, i) /\ \A j \in 1..(i - 1) : ~MarkerAt(s, j)) - 1)
    ELSE s

\* the written lines from line k on, one under the other
RECURSIVE WrittenFrom(_, _)
WrittenFrom(lines, k) ==
    IF k > Len(lines) THEN <<>>
    ELSE <<"\n">> \o RenderLine(lines[k]) \o WrittenFrom(lines, k + 1)

\* the written span of the @example tag on line k: what stands behind the
\* tag up to the next tag marker
WrittenSpan(lines, k) == BeforeMarker(lines[k].desc \o WrittenFrom(lines, k + 1))

ExamplePositions(lines) ==
    SelectSeq([i \in 1..Len(lines) |-> i], LAMBDA i : lines[i].tag = "example")

\* the written spans of the @example tags, in source order
SpansOf(lines) ==
    LET at == ExamplePositions(lines)
    IN  [k \in 1..Len(at) |-> WrittenSpan(lines, at[k])]

WrittenSpans == SpansOf(written.lines)

\* nothing on the line but whitespace and one leading asterisk
DecorationOnly(line) == strip(line) \in {<<>>, <<"*">>}

BlankSpan(span) == strip(span) = <<>>

DecorationSpan(span) ==
    LET lines == split(span, "\n") IN \A k \in 1..Len(lines) : DecorationOnly(lines[k])

\* one record per span, each made of text of its own span, free of markers
OwnSpansOnly(records, spans) ==
    /\ Len(records) = Len(spans)
    /\ \A k \in 1..Len(spans) :
          /\ k <= Len(records)
          /\ IsSubseq(records[k].code, spans[k])
          /\ ~HasMarker(records[k].code)
          /\ \A j \in 1..Len(spans) :
                (j # k /\ records[k].code = strip(spans[j]))
                    => strip(spans[j]) = strip(spans[k])

SeveralExamples == Done /\ written.form = "block" /\ Len(WrittenSpans) >= 2

\* C11 as stated: in a block with several @example tags, each with a
\* non-blank body, there is one Example record per tag in source order, and
\* the code of each record holds only text of its own span and no tag marker.
C11_ExamplesPerTag ==
    (SeveralExamples /\ \A k \in 1..Len(WrittenSpans) : ~BlankSpan(WrittenSpans[k]))
        => OwnSpansOnly(Parsed.examples, WrittenSpans)

\* C11 amended: in a block with several @example tags, each with a body
\* that holds more than line decoration (whitespace and one leading asterisk
\* per line), there is one Example record per tag in source order, and the
\* code of each record holds only text of its own span and no tag marker.
C11_ExamplesPerTagDecorated ==
    (SeveralExamples /\ \A k \in 1..Len(WrittenSpans) : ~DecorationSpan(WrittenSpans[k]))
        => OwnSpansOnly(Parsed.examples, WrittenSpans)

C11_Witness ==
    /\ SeveralExamples
    /\ written.lines = <<Example(<<"g","(","2",")","\n"," "," ","h","(","3",")">>), Example(<<"a","@","b"," ","c">>)>>
    /\ Parsed.examples = <<[code |-> <<"g","(","2",")","\n"," "," ","h","(","3",")">>, description |-> None],
                           [code |-> <<"a">>, description |-> None]>>


-----------------------------------------------------------------------------
(* Several comment blocks                                                  *)

\* the line l as the second block writes it: its type, name and text marked
Second(l) ==
    [l EXCEPT !.type = [k \in 1..Len(@) |-> [@[k] EXCEPT !.text = @ \o <<"2">>]],
              !.name = IF @ = <<>> THEN @ ELSE @ \o <<"2">>,
              !.desc = IF @ = <<>> THEN @ ELSE @ \o <<"2">>]

SecondBlock(lines) == [k \in 1..Len(lines) |-> Second(lines[k])]

\* one block, or two blocks with between between them, of at most PerBlock
\* lines each and Total lines together, and tail behind the last block
Multi(Lines, PerBlock, Total, Betweens, Tails) ==
    {[form |-> "blocks", lines |-> <<>>, blocks |-> <<b>>, between |-> <<>>, tail |-> t] :
        b \in SeqsUpTo(Lines, PerBlock), t \in Tails}
    \cup {[form |-> "blocks", lines |-> <<>>, blocks |-> <<bs[1], SecondBlock(bs[2])>>,
           between |-> g, tail |-> t] :
            bs \in {p \in SeqsUpTo(Lines, PerBlock) \X SeqsUpTo(Lines, PerBlock) :
                        Len(p[1]) + Len(p[2]) <= Total},
            g \in Betweens, t \in Tails}

MultiLines ==
    {Text(<<"S","u","m",".">>), Named("param", TyA, FALSE, <<"x">>, None, TRUE, <<"d">>),
     Typed("returns", TyB, FALSE, <<"d">>), Typed("throws", TyE, FALSE, <<>>),
     Example(<<"f","(","1",")">>), Typedef(TyA, <<"T">>, <<>>),
     Named("property", TyB, TRUE, <<"p">>, None, TRUE, <<"d">>)}

MultiInputs == Multi(MultiLines, MaxLines, MaxLines + 1, {<<"\n">>}, {<<>>})

InitMulti == InitWith(MultiInputs, {TRUE})

SpecMulti == InitMulti /\ [][Next]_vars


FunctionTags == {"param", "return", "returns", "throws", "example"}

HasFunctionTag(lines) == \E k \in 1..Len(lines) : lines[k].tag \in FunctionTags

\* the first written block that holds a param, return, example or throws
\* tag, the first block when none does
WrittenMain ==
    IF \E b \in 1..Len(written.blocks) : HasFunctionTag(written.blocks[b])
    THEN CHOOSE b \in 1..Len(written.blocks) :
            /\ HasFunctionTag(written.blocks[b])
            /\ \A a \in 1..(b - 1) : ~HasFunctionTag(written.blocks[a])
    ELSE 1

MainLines == written.blocks[WrittenMain]

Tagged(lines, tags) == SelectSeq(lines, LAMBDA l : l.tag \in tags)

\* no tag line of the block but the last is written without description text
Described(block) ==
    \A k \in 1..(Len(block) - 1) :
        block[k].tag \in {"text", "typedef", "example"} \/ block[k].desc # <<>>

\* the leading text lines of a block
RECURSIVE LeadingText(_)
LeadingText(block) ==
    IF block = <<>> \/ block[1].tag # "text" \/ HasMarker(block[1].desc) THEN <<>>
    ELSE <<block[1].desc>> \o LeadingText(Tail(block))

\* the records of a tag kind are those of the tags written in one block:
\* their types are among the written ones in order, their descriptions are
\* text of the block, and they are the written tags one by one when no tag
\* of the block but the last lacks a description
RecordsFrom(records, block, tags) ==
    LET lines == Tagged(block, tags)
    IN  /\ Len(records) <= Len(lines)
        /\ IsSubseq(TypesOf(records), [k \in 1..Len(lines) |-> WrittenTypes(lines[k].type)])
        /\ \A k \in 1..Len(records) :
              IsSubseq(records[k].description, WrittenFrom(block, 1))
        /\ Described(block) =>
              /\ Len(records) = Len(lines)
              /\ \A k \in 1..Len(lines) :
                    k <= Len(records) /\ records[k].description = lines[k].desc

NamesFrom(records, block, tags) ==
    LET lines == Tagged(block, tags)
    IN  IsSubseq([k \in 1..Len(records) |-> records[k].name],
                 [k \in 1..Len(lines) |-> lines[k].name])

DescriptionFrom(description, block) ==
    IF LeadingText(block) = <<>> THEN description = None
    ELSE description # None /\ description[1].full = join(LeadingText(block), "\n")

SeveralBlocks == Done /\ written.form = "blocks" /\ Len(written.blocks) >= 2

\* C12: with several comment blocks, the main block is the first block whose
\* params, returns, examples or throws is non-empty, the first block when no
\* block has any; description, params, returns, throws and examples of the
\* result are those of the main block and of no other block.
C12_MainBlockFields ==
    SeveralBlocks =>
        /\ DescriptionFrom(Parsed.description, MainLines)
        /\ RecordsFrom(Parsed.params, MainLines, {"param"})
        /\ NamesFrom(Parsed.params, MainLines, {"param"})
        /\ RecordsFrom(Parsed.returns, MainLines, ReturnTags)
        /\ RecordsFrom(Parsed.throws, MainLines, {"throws"})
        /\ OwnSpansOnly(Parsed.examples, SpansOf(MainLines))

C12_Witness ==
    /\ SeveralBlocks
    /\ written.blocks[1] = <<Text(<<"S","u","m",".">>)>>
    /\ written.blocks[2] = <<Second(Text(<<"S","u","m",".">>)), Second(Typed("returns", TyB, FALSE, <<"d">>))>>
    /\ Parsed.description # None /\ Parsed.description[1].full = <<"S","u","m",".","2">>
    /\ Parsed.returns = <<[types |-> <<<<"b","2">>>>, description |-> <<"d","2">>]>>


\* the lines of all blocks, block after block
RECURSIVE Concat(_)
Concat(blocks) == IF blocks = <<>> THEN <<>> ELSE blocks[1] \o Concat(Tail(blocks))

WrittenTypedefs == Tagged(Concat(written.blocks), {"typedef"})

\* C13: typedefs holds the typedefs of every comment block, not only of the
\* main block: as many as all blocks write together, in block order first
\* and in-block source order second, whichever block is the main block.
C13_TypedefsOfAllBlocks ==
    (Done /\ written.form = "blocks") =>
        /\ Len(Parsed.typedefs) = Len(WrittenTypedefs)
        /\ \A k \in 1..Len(WrittenTypedefs) :
              /\ k <= Len(Parsed.typedefs)
              /\ Parsed.typedefs[k].name = WrittenTypedefs[k].name
              /\ Parsed.typedefs[k].types = WrittenTypes(WrittenTypedefs[k].type)

C13_Witness ==
    /\ SeveralBlocks /\ WrittenMain = 2
    /\ written.blocks[1] = <<Typedef(TyA, <<"T">>, <<>>)>>
    /\ Tagged(written.blocks[2], {"typedef"}) # <<>>
    /\ Len(Parsed.typedefs) = 2
    /\ Parsed.typedefs[1].name = <<"T">> /\ Parsed.typedefs[2].name = <<"T","2">>
    /\ Parsed.params # <<>>


-----------------------------------------------------------------------------
(* @typedef and its properties                                             *)

TypedefLines ==
    {Typedef(TyA, <<"T">>, <<>>), Named("property", TyA, FALSE, <<"p">>, None, TRUE, <<"d">>),
     Named("property", TyB, TRUE, <<"q">>, None, FALSE, <<>>),
     Named("param", TyA, FALSE, <<"x">>, None, TRUE, <<"d">>)}

TypedefInputs == Multi(TypedefLines, MaxLines + 1, MaxLines + 2, {<<"\n">>}, {<<>>})

InitTypedef == InitWith(TypedefInputs, {TRUE})

SpecTypedef == InitTypedef /\ [][Next]_vars

TypedefCount(block) == Len(Tagged(block, {"typedef"}))

\* the typedef records of block b of the input
TypedefsOfBlock(b) ==
    LET before == Len(Tagged(Concat(SubSeq(written.blocks, 1, b - 1)), {"typedef"}))
    IN  SubSeq(Parsed.typedefs, before + 1, before + TypedefCount(written.blocks[b]))

DoneBlocks == Done /\ written.form = "blocks"

\* C14: the typedef of a block with exactly one typedef has as properties
\* the @property records of that same block, in source order; no typedef
\* holds a property written in another block.
C14_PropertiesOfOwnBlock ==
    DoneBlocks =>
        \A b \in 1..Len(written.blocks) :
            TypedefCount(written.blocks[b]) = 1 =>
                /\ Len(TypedefsOfBlock(b)) = 1
                /\ RecordsFrom(TypedefsOfBlock(b)[1].properties, written.blocks[b], {"property"})
                /\ NamesFrom(TypedefsOfBlock(b)[1].properties, written.blocks[b], {"property"})
                /\ Described(written.blocks[b]) =>
                      NamedAsWritten(TypedefsOfBlock(b)[1].properties,
                                     Tagged(written.blocks[b], {"property"}))

C14_Witness ==
    /\ SeveralBlocks
    /\ written.blocks[1] = <<Named("property", TyA, FALSE, <<"p">>, None, TRUE, <<"d">>),
                             Typedef(TyA, <<"T">>, <<>>)>>
    /\ written.blocks[2] = <<Second(Typedef(TyA, <<"T">>, <<>>)),
                             Second(Named("property", TyB, TRUE, <<"q">>, None, FALSE, <<>>))>>
    /\ Len(Parsed.typedefs) = 2
    /\ Len(Parsed.typedefs[1].properties) = 1
    /\ Parsed.typedefs[1].properties[1].name = <<"p">>
    /\ Len(Parsed.typedefs[2].properties) = 1
    /\ Parsed.typedefs[2].properties[1].name = <<"q","2">>

C16_PropertiesOfMainBlock ==
    DoneBlocks =>
        /\ RecordsFrom(Parsed.properties, MainLines, {"property"})
        /\ NamesFrom(Parsed.properties, MainLines, {"property"})
        /\ Described(MainLines) =>
              NamedAsWritten(Parsed.properties, Tagged(MainLines, {"property"}))

C16_Witness ==
    /\ SeveralBlocks /\ WrittenMain = 2
    /\ written.blocks[1] = <<Typedef(TyA, <<"T">>, <<>>),
                             Named("property", TyA, FALSE, <<"p">>, None, TRUE, <<"d">>)>>
    /\ Tagged(written.blocks[2], {"property"}) = <<>>
    /\ Parsed.properties = <<>>
    /\ Len(Parsed.typedefs[1].properties) = 1


-----------------------------------------------------------------------------
(* The code behind the comment                                             *)

CodeLines == {Text(<<"S","u","m",".">>), Named("param", TyA, FALSE, <<"x">>, None, TRUE, <<"d">>)}

CodeTails == {<<>>, <<" ","\n">>, <<"\n","f","(",")">>, <<"\n"," "," ","f","(","a",","," ","b",")"," ","\n">>, <<" ","g">>,
     <<"\n","f","u","n","c","t","i","o","n"," ","f","(",")"," ","{","}">>}

CodeInputs == Multi(CodeLines, MaxLines, MaxLines + 1, {<<"\n">>, <<" ","h","(",")"," ">>}, CodeTails)

InitCode == InitWith(CodeInputs, BOOLEAN)

SpecCode == InitCode /\ [][Next]_vars

AllSpace(s) == \A k \in 1..Len(s) : s[k] \in Space

\* c is t without the whitespace around it
TrimmedTo(t, c) ==
    /\ c # <<>> /\ c[1] \notin Space /\ c[Len(c)] \notin Space
    /\ \E i \in 1..Len(t) :
          /\ i + Len(c) - 1 <= Len(t)
          /\ SubSeq(t, i, i + Len(c) - 1) = c
          /\ AllSpace(SubSeq(t, 1, i - 1))
          /\ AllSpace(SubSeq(t, i + Len(c), Len(t)))

\* C17: with include_code set and at least one delimited block, code is the
\* text behind the last comment block without the whitespace around it, and
\* None when that text is blank; without include_code, code is None; text
\* between two comment blocks is never part of code.
C17_CodeAfterLastBlock ==
    DoneBlocks =>
        IF include_code /\ ~AllSpace(written.tail)
        THEN Parsed.code # None /\ TrimmedTo(written.tail, Parsed.code[1])
        ELSE Parsed.code = None

C17_Witness ==
    /\ SeveralBlocks /\ include_code
    /\ written.between = <<" ","h","(",")"," ">> /\ written.tail = <<"\n"," "," ","f","(","a",","," ","b",")"," ","\n">>
    /\ Parsed.code = Some(<<"f","(","a",","," ","b",")">>)


\* C18: the result carries a functionName field, the declared identifier
\* when the trailing code starts with a named function declaration, None
\* when there is no trailing code.
C18_FunctionName ==
    DoneBlocks =>
        /\ "function_name" \in DOMAIN Parsed
        /\ (include_code /\ written.tail = <<"\n","f","u","n","c","t","i","o","n"," ","f","(",")"," ","{","}">>)
              => Parsed.function_name = Some(<<"f">>)
        /\ Parsed.code = None => Parsed.function_name = None


-----------------------------------------------------------------------------
(* The description                                                         *)

DescLines ==
    {Text(<<"S","u","m",".">>), Text(<<"a","@","b"," ","c">>), Text(<<"@","s","e","e"," ","x">>), Text(<<"@"," ","x">>), Text(<<>>),
     Text(<<"e",".","g","."," ","x">>),
     Named("param", TyA, FALSE, <<"x">>, None, TRUE, <<"d">>)}

DescInputs == Multi(DescLines, MaxLines + 1, MaxLines + 1, {<<"\n">>}, {<<>>})

InitDesc == InitWith(DescInputs, {TRUE})

SpecDesc == InitDesc /\ [][Next]_vars

\* the written line starts with a tag marker '@word'
StartsWithMarker(l) == l.tag # "text" \/ (l.desc # <<>> /\ MarkerAt(l.desc, 1))

\* the written line starts with '@' and no word behind it
StartsWithBareAt(l) ==
    l.tag = "text" /\ l.desc # <<>> /\ l.desc[1] = "@" /\ ~MarkerAt(l.desc, 1)

\* the text of the lines of a block that stand before its first line
\* starting with a tag marker
RECURSIVE BeforeFirstTag(_)
BeforeFirstTag(block) ==
    IF block = <<>> \/ StartsWithMarker(block[1]) THEN <<>>
    ELSE <<block[1].desc>> \o BeforeFirstTag(Tail(block))

\* the description is made of the lines before the first tag line
DescriptionOfLines(description, lines) ==
    IF AllSpace(join(lines, "\n")) THEN description = None
    ELSE description # None /\ TrimmedTo(join(lines, "\n"), description[1].full)

\* C19: the description is built from the lines of the main block before
\* its first line starting with a tag marker, any '@word' counting as one:
\* None when those lines are blank or missing, and otherwise full is those
\* lines joined by newline and trimmed.
C19_DescriptionBeforeFirstTag ==
    DoneBlocks => DescriptionOfLines(Parsed.description, BeforeFirstTag(MainLines))

\* what remains of C19 when no line of the main block starts with an '@'
\* that has no word behind it
C19_WordMarkedPart ==
    (DoneBlocks /\ \A k \in 1..Len(MainLines) : ~StartsWithBareAt(MainLines[k]))
        => DescriptionOfLines(Parsed.description, BeforeFirstTag(MainLines))


\* s up to and including the first c
UpToFirst(s, c) ==
    SubSeq(s, 1, CHOOSE i \in 1..Len(s) : s[i] = c /\ \A j \in 1..(i - 1) : s[j] # c)

\* the first line of s
FirstLine(s) == IF Contains(s, "\n") THEN SubSeq(s, 1, Len(UpToFirst(s, "\n")) - 1) ELSE s

FirstSentence(full) == IF Contains(full, ".") THEN UpToFirst(full, ".") ELSE FirstLine(full)

HasDescription == Done /\ Parsed.description # None

\* C20: summary is a prefix of full: full up to and including its first
\* period when it has one (also when that period is the last character of a
\* multi-line full), the first line of full when it has none.
C20_SummaryFirstSentence ==
    HasDescription => Parsed.description[1].summary = FirstSentence(Parsed.description[1].full)

\* what remains of C20 when the first period of full is not the last
\* character of a full of several lines
C20_InnerPeriodPart ==
    (HasDescription /\ ~(/\ Contains(Parsed.description[1].full, "\n")
                      /\ FirstSentence(Parsed.description[1].full) = Parsed.description[1].full))
        => Parsed.description[1].summary = FirstSentence(Parsed.description[1].full)


-----------------------------------------------------------------------------
(* Several calls of parse at once.  Every variable holds one value per     *)
(* call: the arguments, the position and the outcome of the call, and the  *)
(* local variables of its frame.                                            *)

MaxCalls == 2

Calls == 1..MaxCalls

\* a slip: the locals of all calls kept in one place
frame_shared(c) == 1

\* the frame that holds the local variables of call c
frame(c) == c

CallInputs ==
    {[form |-> "absent", lines |-> <<>>, tail |-> <<>>],
     [form |-> "raw", lines |-> <<>>, tail |-> <<"x">>],
     [form |-> "block", lines |-> <<Text(<<"S","u","m",".">>), Named("param", TyA, FALSE, <<"x">>, None, TRUE, <<"d">>)>>,
      tail |-> <<"\n","f","(",")">>],
     [form |-> "block", lines |-> <<Typedef(TyB, <<"U">>, <<>>)>>, tail |-> <<"\n","/","*","*"," ","@","t","h","r","o","w","s"," ","{","E","}"," ","e"," ","*","/">>],
     [form |-> "bare", lines |-> <<Text(<<"S","u","m",".">>)>>, tail |-> <<>>]}

InitCalls ==
    /\ written \in [Calls -> CallInputs]
    /\ jsdoc_string = [c \in Calls |-> RenderInput(written[c])]
    /\ include_code = [c \in Calls |-> TRUE]
    /\ pc = [c \in Calls |-> "start"]
    /\ comment_matches = [c \in Calls |-> <<>>]
    /\ content = [c \in Calls |-> <<>>]
    /\ code = [c \in Calls |-> None]
    /\ fields = [c \in Calls |-> NoFields]
    /\ typedefs = [c \in Calls |-> <<>>]
    /\ result = [c \in Calls |-> None]
    /\ error = [c \in Calls |-> None]

\* lines 371-372
CallCheckEmpty(c) ==
    /\ pc[c] = "start"
    /\ IF is_empty(jsdoc_string[c])
       THEN error' = [error EXCEPT ![c] = Some(EmptyError)]
            /\ pc' = [pc EXCEPT ![c] = "raised"]
       ELSE error' = error /\ pc' = [pc EXCEPT ![c] = "find"]
    /\ UNCHANGED <<jsdoc_string, include_code, written, comment_matches, content,
                   code, fields, typedefs, result>>

\* a call that separates the first block from the text only when it is to
\* return code, and takes the whole text as content when it is not
CallTakeContent_whole_text(c, text, matches) ==
    /\ comment_matches' = [comment_matches EXCEPT ![frame(c)] = matches]
    /\ IF matches = <<>>
       THEN IF is_bare_comment(text)
            THEN /\ content' = [content EXCEPT ![frame(c)] = text]
                 /\ error' = error /\ pc' = [pc EXCEPT ![c] = "extract"]
            ELSE /\ content' = content
                 /\ error' = [error EXCEPT ![c] = Some(FormatError)]
                 /\ pc' = [pc EXCEPT ![c] = "raised"]
       ELSE /\ content' = [content EXCEPT ![frame(c)] =
                            IF include_code[c] THEN matches[1].group1 ELSE text]
            /\ error' = error /\ pc' = [pc EXCEPT ![c] = "extract"]
    /\ code' = [code EXCEPT ![frame(c)] =
                   IF matches = <<>> THEN None
                   ELSE trailing_code(text, matches, include_code[c])]

\* lines 378-396, matches being the blocks found in text
CallTakeContent(c, text, matches) ==
    /\ comment_matches' = [comment_matches EXCEPT ![frame(c)] = matches]
    /\ IF matches = <<>>
       THEN IF is_bare_comment(text)
            THEN /\ content' = [content EXCEPT ![frame(c)] = text]
                 /\ error' = error /\ pc' = [pc EXCEPT ![c] = "extract"]
            ELSE /\ content' = content
                 /\ error' = [error EXCEPT ![c] = Some(FormatError)]
                 /\ pc' = [pc EXCEPT ![c] = "raised"]
       ELSE /\ content' = [content EXCEPT ![frame(c)] = matches[1].group1]
            /\ error' = error /\ pc' = [pc EXCEPT ![c] = "extract"]
    /\ code' = [code EXCEPT ![frame(c)] =
                   IF matches = <<>> THEN None
                   ELSE trailing_code(text, matches, include_code[c])]

\* lines 375-396
CallFindBlocks(c) ==
    /\ pc[c] = "find"
    /\ CallTakeContent(c, jsdoc_string[c][1], findall("block", jsdoc_string[c][1], 1))
    /\ UNCHANGED <<jsdoc_string, include_code, written, fields, typedefs, result>>

\* lines 398-442
CallExtractFields(c) ==
    /\ pc[c] = "extract"
    /\ fields' = [fields EXCEPT ![frame(c)] =
                     extract_fields(comment_matches[frame(c)],
                                    clean_comment_content(content[frame(c)]))]
    /\ pc' = [pc EXCEPT ![c] = "typedefs"]
    /\ UNCHANGED <<jsdoc_string, include_code, written, comment_matches, content,
                   code, typedefs, result, error>>

\* lines 444-453
CallCollectTypedefs(c) ==
    /\ pc[c] = "typedefs"
    /\ typedefs' = [typedefs EXCEPT ![frame(c)] =
                       collect_typedefs(comment_matches[frame(c)],
                                        clean_comment_content(content[frame(c)]))]
    /\ pc' = [pc EXCEPT ![c] = "return"]
    /\ UNCHANGED <<jsdoc_string, include_code, written, comment_matches, content,
                   code, fields, result, error>>

\* lines 455-465
CallReturn(c) ==
    /\ pc[c] = "return"
    /\ result' = [result EXCEPT ![c] =
                     Some(JSDocComment(fields[frame(c)], typedefs[frame(c)],
                                       code[frame(c)], jsdoc_string[c][1]))]
    /\ pc' = [pc EXCEPT ![c] = "done"]
    /\ UNCHANGED <<jsdoc_string, include_code, written, comment_matches, content,
                   code, fields, typedefs, error>>

NextCalls ==
    \E c \in Calls :
        \/ CallCheckEmpty(c)
        \/ CallFindBlocks(c)
        \/ CallExtractFields(c)
        \/ CallCollectTypedefs(c)
        \/ CallReturn(c)

SpecCalls == InitCalls /\ [][NextCalls]_vars

\* what a call on s returns, or raises, when it runs alone
RunsAlone(s, include) ==
    IF is_empty(s) THEN [result |-> None, error |-> Some(EmptyError)]
    ELSE LET matches == findall("block", s[1], 1)
             cleaned == clean_comment_content(IF matches = <<>> THEN s[1]
                                              ELSE matches[1].group1)
         IN  IF matches = <<>> /\ ~is_bare_comment(s[1])
             THEN [result |-> None, error |-> Some(FormatError)]
             ELSE [result |-> Some(JSDocComment(
                                  extract_fields(matches, cleaned),
                                  collect_typedefs(matches, cleaned),
                                  IF matches = <<>> THEN None
                                  ELSE trailing_code(s[1], matches, include),
                                  s[1])),
                   error |-> None]

\* C21: concurrent calls of parse are independent: however the steps of the
\* calls interleave, each call returns the result, or raises the error, that
\* it gives when it runs alone.
C21_CallsIndependent ==
    \A c \in Calls :
        /\ pc[c] = "done" =>
              /\ result[c] = RunsAlone(jsdoc_string[c], include_code[c]).result
              /\ error[c] = None
        /\ pc[c] = "raised" =>
              /\ error[c] = RunsAlone(jsdoc_string[c], include_code[c]).error
              /\ result[c] = None

\* call 1 has returned while call 2, on another input, is half-way
C21_Witness ==
    /\ pc[1] = "done" /\ pc[2] = "typedefs"
    /\ jsdoc_string[1] # jsdoc_string[2]
    /\ result[1] # None /\ result[1][1].params # <<>>
    /\ fields[2] # fields[1]


\* full cut after its first period, the whole of full when it has none
CutAfterPeriod(full) == IF Contains(full, ".") THEN UpToFirst(full, ".") ELSE full

-----------------------------------------------------------------------------
(* The description of a @param tag                                         *)

\* C23: the description of a @param tag is the trimmed remainder of the
\* tag's own line behind the name and an optional dash: it holds no newline
\* and no text of a following line, and it is empty when nothing follows the
\* name on the line, also when the next line is another tag.
C23_DescriptionOwnLine ==
    (Done /\ LinesOf({"param"}) # <<>> /\ LinesOf({"param"})[1].default = None)
        => /\ Parsed.params # <<>>
           /\ ~Contains(Parsed.params[1].description, "\n")
           /\ Parsed.params[1].description = LinesOf({"param"})[1].desc

\* what remains of C23 when the tag has description text on its line or is
\* the last line of the comment
C23_DescribedPart ==
    (/\ Done /\ LinesOf({"param"}) # <<>> /\ LinesOf({"param"})[1].default = None
     /\ AllDescribed)
        => /\ Parsed.params # <<>>
           /\ ~Contains(Parsed.params[1].description, "\n")
           /\ Parsed.params[1].description = LinesOf({"param"})[1].desc


-----------------------------------------------------------------------------
(* The normalizer and the type tokens                                      *)

\* the call has taken the raw text of its first block (or the bare comment)
HasContent == pc \in {"extract", "typedefs", "return", "done"}

\* C24: the normalizer is idempotent: normalizing the normalized text of a
\* block gives it back unchanged, also when the normalized text has a line
\* that starts with '*' or with indentation.
C24_CleanIdempotent ==
    HasContent =>
        clean_comment_content(clean_comment_content(content)) = clean_comment_content(content)

\* what remains of C24 when no normalized line starts with '*' or whitespace
C24_PlainLinesPart ==
    (HasContent /\ \A k \in 1..Len(split(clean_comment_content(content), "\n")) :
                      LET line == split(clean_comment_content(content), "\n")[k]
                      IN  line = <<>> \/ line[1] \notin (Space \cup {"*"}))
        => clean_comment_content(clean_comment_content(content)) = clean_comment_content(content)

\* C25: every Parameter and Property record has a non-empty types sequence,
\* whatever type token the tag pattern accepted, also one made only of '|'
\* separators or of whitespace.
C25_TypesNonEmpty ==
    Done =>
        /\ \A k \in 1..Len(Parsed.params) : Parsed.params[k].types # <<>>
        /\ \A k \in 1..Len(Parsed.properties) : Parsed.properties[k].types # <<>>

\* what remains of C25 when every written type token names a type
C25_NamedTypesPart ==
    (Done /\ \A k \in 1..Len(written.lines) : WrittenTypes(written.lines[k].type) # <<>>)
        => /\ \A k \in 1..Len(Parsed.params) : Parsed.params[k].types # <<>>
           /\ \A k \in 1..Len(Parsed.properties) : Parsed.properties[k].types # <<>>


-----------------------------------------------------------------------------
(* Tag lines that lack the required shape                                  *)

MalformedInputs ==
    Blocks({Text(<<"@","p","a","r","a","m"," ","y"," ","-"," ","t">>), Text(<<"@","t","h","r","o","w","s"," ","E">>), Text(<<"S","u","m",".">>),
            Named("param", TyA, FALSE, <<"x">>, None, TRUE, <<"d">>),
            Named("param", TyB, FALSE, <<"z">>, None, FALSE, <<>>),
            Typed("throws", TyE, FALSE, <<>>)}, {<<>>})

SpecMalformed == InitWith(MalformedInputs, {TRUE}) /\ [][Next]_vars

\* sub stands somewhere in s
Infix(sub, s) == \E i \in 1..(Len(s) - Len(sub) + 1) : SubSeq(s, i, i + Len(sub) - 1) = sub

\* a tag line of the kind keyword written without its brace-delimited type
Malformed(l, keyword) == l.tag = "text" /\ startswith(l.desc, keyword)

\* no record of records comes from, or holds text of, a malformed line of
\* the kind keyword: there are no more records than well-formed tags
SkippedSilently(records, keyword, tags) ==
    /\ Len(records) <= Len(LinesOf(tags))
    /\ \A k \in 1..Len(written.lines) :
          Malformed(written.lines[k], keyword) =>
              \A r \in 1..Len(records) : ~Infix(written.lines[k].desc, records[r].description)

HasMalformed ==
    \E k \in 1..Len(written.lines) :
        Malformed(written.lines[k], K_param) \/ Malformed(written.lines[k], K_throws)

\* C26: a tag line without the required shape ('@param name - text' with no
\* brace-delimited type) is skipped silently: the parse succeeds, the line
\* gives no record, and it is no part of the record of another tag of the
\* same kind.
C26_MalformedSkipped ==
    HasMalformed =>
        /\ pc # "raised"
        /\ Done => /\ SkippedSilently(Parsed.params, K_param, {"param"})
                   /\ SkippedSilently(Parsed.throws, K_throws, {"throws"})

\* what remains of C26 when no tag line but the last is written without
\* description text
C26_DescribedPart ==
    (HasMalformed /\ AllDescribed) =>
        /\ pc # "raised"
        /\ Done => /\ SkippedSilently(Parsed.params, K_param, {"param"})
                   /\ SkippedSilently(Parsed.throws, K_throws, {"throws"})


\* the written spans that hold more than line decoration
CodeSpans == SelectSeq(WrittenSpans, LAMBDA span : ~DecorationSpan(span))

\* a line that starts with a tag the parser has no pattern for
UnknownTag(l) ==
    /\ l.tag = "text"
    /\ HasMarker(l.desc) /\ BeforeMarker(l.desc) = <<>>

HasUnknownTag == \E k \in 1..Len(written.lines) : UnknownTag(written.lines[k])

\* C27: a tag the parser does not know ('@see x') gives no record, but it
\* ends an example span as a known tag does: the code of an Example stops
\* before the first '@word' behind its @example marker, and an @example
\* whose span is blank once cleaned gives no record.
C27_AnyTagEndsExample ==
    (Done /\ written.form = "block") =>
        /\ Len(Parsed.examples) = Len(CodeSpans)
        /\ \A k \in 1..Len(CodeSpans) :
              /\ k <= Len(Parsed.examples)
              /\ IsSubseq(Parsed.examples[k].code, CodeSpans[k])
              /\ ~HasMarker(Parsed.examples[k].code)
              /\ Parsed.examples[k].code # <<>>
        /\ Len(Parsed.throws) = Len(LinesOf({"throws"}))
        /\ Parsed.params = <<>> /\ Parsed.returns = <<>>
        /\ Parsed.properties = <<>> /\ Parsed.typedefs = <<>>
        /\ \A k \in 1..Len(Parsed.throws) : ~HasMarker(Parsed.throws[k].description)

C27_Witness ==
    /\ Done
    /\ HasUnknownTag
    /\ written.lines = <<Example(<<"f","(","1",")">>), Text(<<"@","s","e","e"," ","x">>)>>
    /\ Parsed.examples = <<[code |-> <<"f","(","1",")">>, description |-> None]>>


RECURSIVE RstripEach(_)
RstripEach(lines) ==
    IF lines = <<>> THEN <<>> ELSE <<rstrip(lines[1])>> \o RstripEach(Tail(lines))

\* the lines of a written span as they stand behind the line decoration,
\* less the blank lines at its two ends
OwnLines(span) == pop_empty_tail(pop_empty_head(RstripEach(split(span, "\n"))))

\* no line of the span starts with an asterisk of its own
PlainSpan(span) ==
    LET lines == split(span, "\n")
    IN  \A k \in 1..Len(lines) : ~startswith(strip(lines[k]), <<"*">>)

Indented(line) == line # <<>> /\ line[1] \in Space

\* the code of every example is its span line by line, each line with the
\* indentation it was written with
IndentationKept ==
    /\ Len(Parsed.examples) = Len(CodeSpans)
    /\ \A k \in 1..Len(CodeSpans) :
          /\ k <= Len(Parsed.examples)
          /\ Parsed.examples[k].code = join(OwnLines(CodeSpans[k]), "\n")

PlainExamples ==
    /\ Done /\ written.form = "block"
    /\ \A k \in 1..Len(CodeSpans) : PlainSpan(CodeSpans[k])

\* C28: every line of an example span, the first included, keeps the
\* indentation it has behind the line decoration, so the lines of the code
\* stand to one another as they were written.
C28_ExampleIndentation == PlainExamples => IndentationKept

\* what remains of C28 when the first line of code of every span is written
\* without indentation
C28_LaterLinesPart ==
    (PlainExamples /\ \A k \in 1..Len(CodeSpans) : ~Indented(OwnLines(CodeSpans[k])[1]))
        => IndentationKept


\* a Property record stands both in the top-level properties and in the
\* properties of the typedef td
Shared(td) ==
    \E i \in 1..Len(Parsed.properties), j \in 1..Len(td.properties) :
        Parsed.properties[i] = td.properties[j]

\* C29 as stated: the top-level properties hold only properties that no
\* typedef owns: no Property record stands both in result.properties and in
\* the properties of a typedef.
C29_NoSharedProperty ==
    DoneBlocks => \A k \in 1..Len(Parsed.typedefs) : ~Shared(Parsed.typedefs[k])

\* C29 amended: the top-level properties hold the properties of the main
\* block, owned by a typedef or not: the only typedef of the main block has
\* the very list of the top-level properties, and no other typedef shares a
\* Property record with them.
C29_SharedWithMainTypedef ==
    DoneBlocks =>
        \A b \in 1..Len(written.blocks) :
            \A k \in 1..Len(TypedefsOfBlock(b)) :
                IF b = WrittenMain /\ TypedefCount(written.blocks[b]) = 1
                THEN TypedefsOfBlock(b)[k].properties = Parsed.properties
                ELSE ~Shared(TypedefsOfBlock(b)[k])

C29_Witness ==
    /\ SeveralBlocks
    /\ written.blocks[1] = <<Typedef(TyA, <<"T">>, <<>>),
                             Named("property", TyA, FALSE, <<"p">>, None, TRUE, <<"d">>)>>
    /\ written.blocks[2] = <<Second(Typedef(TyA, <<"T">>, <<>>)),
                             Second(Named("property", TyA, FALSE, <<"p">>, None, TRUE, <<"d">>))>>
    /\ Len(Parsed.typedefs) = 2
    /\ Len(Parsed.properties) = 1
    /\ Parsed.typedefs[1].properties = Parsed.properties
    /\ Len(Parsed.typedefs[2].properties) = 1
    /\ ~Shared(Parsed.typedefs[2])


-----------------------------------------------------------------------------
(* parse(input, True) beside parse(input, False)                           *)

FlagInputs ==
    CallInputs
    \cup {[form |-> "raw", lines |-> <<>>, tail |-> <<" ">>],
          [form |-> "bare", lines |-> <<Text(<<"S","u","m",".">>), Named("param", TyA, FALSE, <<"x">>, None, TRUE, <<"d">>)>>,
           tail |-> <<"\n","f","(",")">>],
          [form |-> "block", lines |-> <<Typed("returns", TyE, FALSE, <<"r">>)>>, tail |-> <<" ","g"," ">>],
          [form |-> "block", lines |-> <<ExampleTag, Text(<<"k","(",")">>)>>, tail |-> <<>>],
          [form |-> "block", lines |-> <<Text(<<"S","u","m",".">>), Named("property", TyB, TRUE, <<"q">>, None, FALSE, <<>>)>>,
           tail |-> <<"\n","f","(",")">>]}

\* every call gets the same input; the odd calls ask for the code, the even
\* calls do not
InitFlags ==
    /\ written \in {[c \in Calls |-> w] : w \in FlagInputs}
    /\ jsdoc_string = [c \in Calls |-> RenderInput(written[c])]
    /\ include_code = [c \in Calls |-> c % 2 = 1]
    /\ pc = [c \in Calls |-> "start"]
    /\ comment_matches = [c \in Calls |-> <<>>]
    /\ content = [c \in Calls |-> <<>>]
    /\ code = [c \in Calls |-> None]
    /\ fields = [c \in Calls |-> NoFields]
    /\ typedefs = [c \in Calls |-> <<>>]
    /\ result = [c \in Calls |-> None]
    /\ error = [c \in Calls |-> None]

SpecFlags == InitFlags /\ [][NextCalls]_vars

Ended(c) == pc[c] \in {"done", "raised"}

OtherFields ==
    {"description", "params", "returns", "typedefs", "properties", "examples",
     "throws", "raw_comment"}

\* C30: include_code changes nothing but the code field: parse(input, True)
\* and parse(input, False) both fail with the same error, or both succeed
\* with equal description, params, returns, typedefs, properties, examples,
\* throws and raw_comment; in the fallback mode (no delimited block, input
\* starting with '*') code is None for both.
C30_OnlyCodeDiffers ==
    \A a, b \in Calls :
        (Ended(a) /\ Ended(b)) =>
            /\ pc[a] = pc[b]
            /\ error[a] = error[b]
            /\ pc[a] = "raised" => error[a] # None /\ result[a] = None
            /\ pc[a] = "done" =>
                  /\ error[a] = None
                  /\ \A f \in OtherFields : result[a][1][f] = result[b][1][f]
                  /\ written[a].form = "bare" => result[a][1].code = None

\* the two calls have returned records that differ, in the code field
C30_Witness ==
    /\ pc[1] = "done" /\ pc[2] = "done"
    /\ include_code[1] /\ ~include_code[2]
    /\ written[1].tail = <<"\n","f","(",")">> /\ written[1].form = "block"
    /\ result[1][1].code = Some(<<"f","(",")">>)
    /\ result[2][1].code = None

====
